---------------------------- MODULE Spec2Model ----------------------------
(***************************************************************************)
(* NFTScout: the three-stage pipeline FetchWorker -> TaskProcessor         *)
(* (BroadCast) -> Minter (Transaction) started by cmd/app/main.go, with    *)
(* the two buffered channels, the shared cancellation context, the         *)
(* MongoDB transaction collection and the wallet's node.                   *)
(*                                                                         *)
(* Strings that the code parses (NftCount) are tuples of one-character     *)
(* strings, so that strconv.Atoi is computed and not assumed.  The machine *)
(* word is scaled from 64 bits to IntSize bits.                            *)
(***************************************************************************)
EXTENDS Integers, Sequences, FiniteSets, TLC

(***************************************************************************)
(* Bounds of the model.                                                    *)
(***************************************************************************)
\* width of Go's int in the model (64 on the build targets of the Makefile)
IntSize == 5
\* longest candidate list handed to ProcessData in the function-level check
MaxCandidates == 3
\* ticks FetchWorker takes in a run in which no external call fails
MaxTicks == 5
\* ticks that a run gives up for each external call that fails in it
FaultCost == 3

(***************************************************************************)
(* Program constants.                                                      *)
(***************************************************************************)
\* make(chan []api.Collection, 4), make(chan helpers.ProcessedData, 4)
ChanCap == 4

\* int(^uint(0)>> 1)
MaxInt == 2 ^ (IntSize - 1) - 1
MinInt == -(2 ^ (IntSize - 1))

(***************************************************************************)
(* strconv.Atoi / strconv.Itoa on tuples of characters.                    *)
(***************************************************************************)
Digits == <<"0", "1", "2", "3", "4", "5", "6", "7", "8", "9">>

IsDigit(c) == \E i \in 1..10 : Digits[i] = c

DigitVal(c) == (CHOOSE i \in 1..10 : Digits[i] = c) - 1

RECURSIVE DigitsValue(_, _)
\* the value of a run of decimal digits, most significant first
DigitsValue(s, acc) ==
    IF s = <<>> THEN acc
    ELSE DigitsValue(Tail(s), acc * 10 + DigitVal(Head(s)))

\* strconv.Atoi: optional sign, at least one digit, nothing else, in range
Atoi(s) ==
    LET signed == s # <<>> /\ Head(s) \in {"-", "+"}
        body   == IF signed THEN Tail(s) ELSE s
        mag    == DigitsValue(body, 0)
        val    == IF signed /\ Head(s) = "-" THEN -mag ELSE mag
    IN  IF body = <<>> \/ \E i \in 1..Len(body) : ~IsDigit(body[i])
        THEN [ok |-> FALSE, val |-> 0]
        ELSE IF val > MaxInt \/ val < MinInt
        THEN [ok |-> FALSE, val |-> IF val > MaxInt THEN MaxInt ELSE MinInt]
        ELSE [ok |-> TRUE, val |-> val]

RECURSIVE NatDigits(_)
NatDigits(n) ==
    IF n < 10 THEN <<Digits[n + 1]>>
    ELSE NatDigits(n \div 10) \o <<Digits[(n % 10) + 1]>>

\* strconv.Itoa
Itoa(n) == IF n < 0 THEN <<"-">> \o NatDigits(-n) ELSE NatDigits(n)

(***************************************************************************)
(* api.Collection, api.Transaction, helpers.ProcessedData.                 *)
(***************************************************************************)
Collection(contract, name, reported) ==
    [Contract |-> contract, Name |-> name, IsReported |-> reported]

Transaction(to, callData, nftCount, ethValue) ==
    [To |-> to, CallData |-> callData, NftCount |-> nftCount, EthValue |-> ethValue]

\* the zero value api.Transaction{}
ZeroTransaction == Transaction("", "", <<>>, "")

\* the zero value helpers.ProcessedData{}
ZeroProcessedData ==
    [Name |-> "", Contract |-> "", Quantity |-> 0, EthValue |-> "",
     To |-> "", CallData |-> "", Hash |-> ""]

ErrNone == "nil"
ErrNoItems == "no items provided"
ErrInvalidCount == "invalid NFT count"

(***************************************************************************)
(* helpers.ProcessData.                                                    *)
(***************************************************************************)
\* the loop state before the first candidate
ScanInit == [err |-> FALSE, minNftCount |-> MaxInt, minTransaction |-> ZeroTransaction]

\* the body of the range loop, with a later tied candidate replacing the first
ScanStepLastWins(st, tx) ==
    LET n == Atoi(tx.NftCount)
    IN  IF st.err THEN st
        ELSE IF ~n.ok THEN [st EXCEPT !.err = TRUE]
        ELSE IF n.val <= st.minNftCount
        THEN [st EXCEPT !.minNftCount = n.val, !.minTransaction = tx]
        ELSE st

\* the body of the range loop, passing over a candidate whose count does not parse
ScanStepSkipsMalformed(st, tx) ==
    LET n == Atoi(tx.NftCount)
    IN  IF st.err THEN st
        ELSE IF ~n.ok THEN st
        ELSE IF n.val < st.minNftCount
        THEN [st EXCEPT !.minNftCount = n.val, !.minTransaction = tx]
        ELSE st

\* the body of the range loop: parse, return on error, keep a strictly smaller count
ScanStep(st, tx) ==
    LET n == Atoi(tx.NftCount)
    IN  IF st.err THEN st
        ELSE IF ~n.ok THEN [st EXCEPT !.err = TRUE]
        ELSE IF n.val < st.minNftCount
        THEN [st EXCEPT !.minNftCount = n.val, !.minTransaction = tx]
        ELSE st

RECURSIVE Scan(_, _)
Scan(st, txs) ==
    IF txs = <<>> THEN st ELSE Scan(ScanStep(st, Head(txs)), Tail(txs))

ProcessData(collection, txs) ==
    IF Len(txs) = 0 THEN [err |-> ErrNoItems, data |-> ZeroProcessedData]
    ELSE LET st == Scan(ScanInit, txs)
             n  == Atoi(st.minTransaction.NftCount)
         IN  IF st.err THEN [err |-> ErrInvalidCount, data |-> ZeroProcessedData]
             ELSE IF ~n.ok THEN [err |-> ErrInvalidCount, data |-> ZeroProcessedData]
             ELSE [err |-> ErrNone,
                   data |-> [Name |-> collection.Name,
                             Contract |-> collection.Contract,
                             Quantity |-> n.val,
                             EthValue |-> st.minTransaction.EthValue,
                             To |-> st.minTransaction.To,
                             CallData |-> st.minTransaction.CallData,
                             Hash |-> ""]]

(***************************************************************************)
(* api.filterCollections, api.FetchCollection and the data they work on.   *)
(***************************************************************************)
Demo1 == "0x1234567890123456789012345678901234567890"
Demo2 == "0xabcdefabcdefabcdefabcdefabcdefabcdefabcd"
Demo3 == "0x9999999999999999999999999999999999999999"

createDemoCollections ==
    <<Collection(Demo1, "Demo NFT Collection #1", <<>>),
      Collection(Demo2, "Base Art Collection", <<>>),
      Collection(Demo3, "Free Mint Collection", <<>>)>>

RECURSIVE FilterFrom(_, _, _)
\* the range loop of filterCollections: seen is marked before the other tests
FilterFrom(collections, seen, filtered) ==
    IF collections = <<>> THEN filtered
    ELSE LET col == Head(collections)
         IN  IF col.Contract \in seen
             THEN FilterFrom(Tail(collections), seen, filtered)
             ELSE IF Len(col.IsReported) > 0 \/ col.Contract = ""
             THEN FilterFrom(Tail(collections), seen \cup {col.Contract}, filtered)
             ELSE FilterFrom(Tail(collections), seen \cup {col.Contract},
                             Append(filtered, col))

\* the filter without its seen map: reported and address-less collections go,
\* repeated ones stay
filterCollectionsKeepsDuplicates(collections) ==
    SelectSeq(collections, LAMBDA col : Len(col.IsReported) = 0 /\ col.Contract # "")

RECURSIVE FilterMarkingKept(_, _, _)
\* the range loop with seen marked only for a collection that is kept, and no
\* test of the address
FilterMarkingKept(collections, seen, filtered) ==
    IF collections = <<>> THEN filtered
    ELSE LET col == Head(collections)
         IN  IF col.Contract \notin seen /\ Len(col.IsReported) = 0
             THEN FilterMarkingKept(Tail(collections), seen \cup {col.Contract},
                                    Append(filtered, col))
             ELSE FilterMarkingKept(Tail(collections), seen, filtered)

\* the filter that marks an address as seen only when it keeps the collection
filterCollectionsMarksKept(collections) == FilterMarkingKept(collections, {}, <<>>)

\* api.filterCollections
filterCollections(collections) == FilterFrom(collections, {}, <<>>)

\* the configurations of the two API keys that FetchCollection tells apart
DemoConfig == [OpenSeaAPIKey |-> "", AlchemyAPIKey |-> ""]
LiveConfig == [OpenSeaAPIKey |-> "key", AlchemyAPIKey |-> "key"]
Configs == {DemoConfig, LiveConfig}

RECURSIVE ConvertOpenSea(_)
\* the conversion loop of fetchFromOpenSea: first contract address, not reported
ConvertOpenSea(osCols) ==
    IF osCols = <<>> THEN <<>>
    ELSE LET osCol == Head(osCols)
         IN  (IF Len(osCol.Contracts) > 0
              THEN <<Collection(osCol.Contracts[1], osCol.Name, <<>>)>>
              ELSE <<>>) \o ConvertOpenSea(Tail(osCols))

\* resp is what the HTTP exchange gave: failed, or the decoded collections
fetchFromOpenSea(config, resp) ==
    IF config.OpenSeaAPIKey = "" \/ resp.failed
    THEN [err |-> TRUE, collections |-> <<>>]
    ELSE [err |-> FALSE, collections |-> ConvertOpenSea(resp.collections)]

\* every successful exchange is answered with an empty slice
fetchFromAlchemy(config, failed) ==
    IF config.AlchemyAPIKey = "" \/ failed
    THEN [err |-> TRUE, collections |-> <<>>]
    ELSE [err |-> FALSE, collections |-> <<>>]

FetchCollection(config, openSeaResp, alchemyFailed) ==
    IF config.OpenSeaAPIKey = "" /\ config.AlchemyAPIKey = ""
    THEN [err |-> FALSE, data |-> createDemoCollections]
    ELSE LET os  == fetchFromOpenSea(config, openSeaResp)
             al  == fetchFromAlchemy(config, alchemyFailed)
             all == (IF os.err THEN <<>> ELSE os.collections)
                    \o (IF al.err THEN <<>> ELSE al.collections)
         IN  IF Len(all) = 0
             THEN [err |-> FALSE, data |-> createDemoCollections]
             ELSE [err |-> FALSE, data |-> filterCollections(all)]

OpenSeaCollection(name, contracts) == [Name |-> name, Contracts |-> contracts]

\* the result FetchWorker handles in its error branch
FetchFailed == [err |-> TRUE, data |-> <<>>]

\* the OpenSea answers the model draws from: a collection without an address,
\* and one collection listed twice
OpenSeaResponses ==
    {[failed |-> FALSE, collections |-> <<OpenSeaCollection("Unnamed", <<"">>)>>],
     [failed |-> FALSE,
      collections |-> <<OpenSeaCollection("Demo NFT Collection #1", <<Demo1>>),
                        OpenSeaCollection("Demo NFT Collection #1", <<Demo1, Demo2>>)>>]}

\* what the call api.FetchCollection(ctx) can hand to FetchWorker: the results
\* of the implementation above, none of which is an error, and the error that
\* its signature allows and FetchWorker handles
FetchCollectionResults(cfg) ==
    {FetchCollection(cfg, resp, alchemyFailed) :
        resp \in OpenSeaResponses, alchemyFailed \in BOOLEAN} \cup {FetchFailed}

(***************************************************************************)
(* api.GetTransaction and the answers of the candidate source.             *)
(***************************************************************************)
\* the candidate the current implementation builds for every collection
GetTransaction(collection) ==
    [err |-> FALSE, txs |-> <<Transaction(collection.Contract, "0x", <<"1">>, "0")>>]

\* what the call api.GetTransaction(ctx, col) can hand to BroadCast: the answer
\* above, an error, no candidate, several candidates, a malformed count
GetTransactionResults(collection) ==
    {GetTransaction(collection),
     [err |-> TRUE, txs |-> <<>>],
     [err |-> FALSE, txs |-> <<>>],
     [err |-> FALSE,
      txs |-> <<Transaction("0x3333333333333333333333333333333333333333", "0x03", <<"3">>, "0"),
                Transaction(collection.Contract, "0x", <<"1">>, "0"),
                Transaction("0x5555555555555555555555555555555555555555", "0x05", <<"5">>, "0")>>],
     [err |-> FALSE,
      txs |-> <<Transaction(collection.Contract, "0x", <<"1">>, "0"),
                Transaction(collection.Contract, "0x", <<"x">>, "0")>>],
     [err |-> FALSE,
      txs |-> <<Transaction(collection.Contract, "0x", <<"x">>, "0"),
                Transaction(collection.Contract, "0x", <<"1">>, "0")>>]}

(***************************************************************************)
(* web3.Wallet and the node behind it.                                     *)
(***************************************************************************)
\* os.Getenv("GAS_LIMIT"): a number, no number, or unset
GasLimitEnv == {<<"1", "2">>, <<"x">>, <<>>}

\* GAS_LIMIT of the environment, as main hands it to NewWallet
GasLimits == {Atoi(s).val : s \in {t \in GasLimitEnv : Atoi(t).ok}}

\* what main finds when it starts: whether .env loads, whether MongoDB connects
\* and answers the ping, the GAS_LIMIT string, whether NewWallet can dial and
\* read the private key
Environments ==
    [dotenv : BOOLEAN, mongo : BOOLEAN, gasLimit : GasLimitEnv, wallet : BOOLEAN]

GoodEnv == [dotenv |-> TRUE, mongo |-> TRUE, gasLimit |-> <<"1", "2">>, wallet |-> TRUE]

\* what SuggestGasPrice can answer
GasPrices == {7}

\* common.HexToAddress: a typed address; the empty string is the zero address
HexToAddress(s) == IF s = "" THEN <<"address", "0x0">> ELSE <<"address", s>>

\* types.NewTransaction(nonce, to, value, w.gasLimit, gasPrice, data)
NewTransaction(nonce, to, value, gasLimit, gasPrice, data) ==
    [nonce |-> nonce, to |-> to, value |-> value, gasLimit |-> gasLimit,
     gasPrice |-> gasPrice, data |-> data]

ZeroTx == NewTransaction(0, <<"address", "0x0">>, 0, 0, 0, "")

\* signedTx.Hash().Hex(): determined by the signed transaction, and injective
TxHash(tx) == <<"hash", tx.nonce, tx.to, tx.gasPrice, tx.data>>

\* db.TransactionData as InsertTransactionToDb stores it
Document(name, hash, qty, address) ==
    [name |-> name, hash |-> hash, qty |-> qty, address |-> address]

(***************************************************************************)
(* The state of one run of cmd/app/main.go.                                *)
(***************************************************************************)
VARIABLES
    config,        \* the API keys of the environment
    gasLimit,      \* the wallet's gas limit
    cancelled,     \* ctx.Done() is closed
    mainPc,        \* where main is: loadEnv, connect, gasLimit, wallet, start, fatal,
                   \* wait, closeData, stop, exited
    dataChan,      \* buffer of dataChannel
    txChan,        \* buffer of txChannel
    fPc,           \* FetchWorker: select, send, parked, done, panic
    fData,         \* the batch FetchWorker is sending
    ticks,         \* ticks taken so far
    tpPc,          \* TaskProcessor/BroadCast: select, range, process, send, parked, done, panic
    tpBatch,       \* colls of the running BroadCast
    tpIdx,         \* index of col in colls
    tpTxs,         \* answer of api.GetTransaction for col
    tpData,        \* the ProcessedData BroadCast is sending
    mPc,           \* Minter/Transaction: select, lookup, estimate, build, send, insert, done
    mData,         \* the ProcessedData Transaction works on
    mGasPrice,     \* gasPrice of Transaction
    mTx,           \* tx of Transaction
    mHash,         \* hash of Transaction
    transactions,  \* documents of the MongoDB transaction collection
    errorLog,      \* documents of the MongoDB error collection
    mempool,       \* transactions the node accepted from the wallet, oldest first
    faults,        \* external calls that failed, or answered without a usable candidate
    earlier,       \* what an earlier run of the bot left in the node and the database
    env,           \* what main finds when it starts
    emitted,       \* contracts of the ProcessedData that BroadCast has put on txChan
    sent,          \* the ProcessedData that BroadCast has put on txChan, in order
    received,      \* the ProcessedData that Minter has taken from txChan, in order
    pdColl,        \* function-level check of ProcessData: its collection
    pdTxs,         \* ... its candidates
    pdOut,         \* ... its result, or PdPending
    fdStr,         \* function-level check of FetchWorker's start: FETCH_DURATION
    fdOut,         \* ... where the start ended, or FdPending
    fcIn,          \* function-level check of filterCollections: its argument
    fcOut          \* ... its result, or FcPending

envVars == <<config, gasLimit, earlier, env>>
chanVars == <<dataChan, txChan>>
fVars == <<fPc, fData, ticks>>
tpVars == <<tpPc, tpBatch, tpIdx, tpTxs, tpData>>
mVars == <<mPc, mData, mGasPrice, mTx, mHash>>
dbVars == <<transactions, errorLog>>
pdVars == <<pdColl, pdTxs, pdOut>>
fdVars == <<fdStr, fdOut>>
fcVars == <<fcIn, fcOut>>
vars == <<envVars, cancelled, mainPc, chanVars, fVars, tpVars, mVars, dbVars,
          mempool, faults, emitted, sent, received, pdVars, fdVars, fcVars>>

PdPending == [err |-> "pending", data |-> ZeroProcessedData]
FdPending == [pc |-> "pending", interval |-> 0]
FcPending == [done |-> FALSE, filtered |-> <<>>]
NoAnswer == [err |-> FALSE, txs |-> <<>>]

\* a transaction of an earlier run of the bot, and its record
EarlierTx == NewTransaction(0, HexToAddress(Demo2), 0, 12, 7, "0x")
EarlierRuns ==
    {[mempool |-> <<>>, transactions |-> {}],
     [mempool |-> <<[contract |-> Demo2, tx |-> EarlierTx]>>,
      transactions |-> {Document("Base Art Collection", TxHash(EarlierTx), 1, Demo2)}]}

\* main up to the three go statements: the stages are started, nothing is queued
InitPipeline(c, e) ==
    /\ config = c
    /\ earlier = e
    /\ env = GoodEnv
    /\ gasLimit \in GasLimits
    /\ cancelled = FALSE
    /\ mainPc = "wait"
    /\ dataChan = <<>>
    /\ txChan = <<>>
    /\ fPc = "select" /\ fData = <<>> /\ ticks = 0
    /\ tpPc = "select" /\ tpBatch = <<>> /\ tpIdx = 1 /\ tpTxs = NoAnswer
    /\ tpData = ZeroProcessedData
    /\ mPc = "select" /\ mData = ZeroProcessedData /\ mGasPrice = 0
    /\ mTx = ZeroTx /\ mHash = ""
    /\ mempool = e.mempool /\ transactions = e.transactions
    /\ errorLog = {}
    /\ faults = 0
    /\ emitted = {}
    /\ sent = <<>> /\ received = <<>>

\* main is entered: nothing is loaded, no goroutine is started
InitMain(c, e, v) ==
    /\ config = c
    /\ earlier = e
    /\ env = v
    /\ gasLimit = 0
    /\ cancelled = FALSE
    /\ mainPc = "loadEnv"
    /\ dataChan = <<>>
    /\ txChan = <<>>
    /\ fPc = "unstarted" /\ fData = <<>> /\ ticks = 0
    /\ tpPc = "unstarted" /\ tpBatch = <<>> /\ tpIdx = 1 /\ tpTxs = NoAnswer
    /\ tpData = ZeroProcessedData
    /\ mPc = "unstarted" /\ mData = ZeroProcessedData /\ mGasPrice = 0
    /\ mTx = ZeroTx /\ mHash = ""
    /\ mempool = e.mempool /\ transactions = e.transactions
    /\ errorLog = {}
    /\ faults = 0
    /\ emitted = {}
    /\ sent = <<>> /\ received = <<>>

Init ==
    /\ \E c \in Configs, e \in EarlierRuns, v \in Environments : InitMain(c, e, v)
    /\ pdColl = Collection("", "", <<>>) /\ pdTxs = <<>> /\ pdOut = PdPending
    /\ fdStr = <<>> /\ fdOut = FdPending
    /\ fcIn = <<>> /\ fcOut = FcPending

\* the process is alive: main has not returned or called log.Fatal, and no
\* goroutine has panicked
Running == mainPc \notin {"exited", "fatal"} /\ fPc # "panic" /\ tpPc # "panic"

\* close(txChannel) and close(dataChannel) are deferred, and run in this order
TxClosed == mainPc \in {"closeData", "stop", "exited"}
DataClosed == mainPc \in {"stop", "exited"}

\* the bound of a run: each tick counts 1 and each failed call FaultCost
Effort == ticks + FaultCost * faults
MayTick == Effort + 1 <= MaxTicks
MayFail == Effort + FaultCost <= MaxTicks

(***************************************************************************)
(* main and the signal.                                                    *)
(***************************************************************************)
\* err := godotenv.Load(".env"); log.Fatal on error
MainLoadEnv ==
    /\ mainPc = "loadEnv"
    /\ mainPc' = IF env.dotenv THEN "connect" ELSE "fatal"
    /\ UNCHANGED <<envVars, cancelled, chanVars, fVars, tpVars, mVars, dbVars,
                   mempool, faults, pdVars, fdVars, fcVars, emitted, sent, received>>

\* client, err := db.ConnectToMongoDB(ctx, ...); log.Fatal on error.  Connect
\* and Ping take ctx: once it is cancelled they may fail on that account
MainConnect ==
    /\ mainPc = "connect"
    /\ \/ mainPc' = IF env.mongo THEN "gasLimit" ELSE "fatal"
       \/ cancelled /\ mainPc' = "fatal"
    /\ UNCHANGED <<envVars, cancelled, chanVars, fVars, tpVars, mVars, dbVars,
                   mempool, faults, pdVars, fdVars, fcVars, emitted, sent, received>>

\* the parse of GAS_LIMIT, with its error dropped
MainGasLimitUnchecked ==
    /\ mainPc = "gasLimit"
    /\ gasLimit' = Atoi(env.gasLimit).val /\ mainPc' = "wallet"
    /\ UNCHANGED <<config, earlier, env, cancelled, chanVars, fVars, tpVars, mVars,
                   dbVars, mempool, faults, pdVars, fdVars, fcVars, emitted, sent, received>>

\* gasLimit, err := strconv.Atoi(os.Getenv("GAS_LIMIT")); log.Fatal on error
MainGasLimit ==
    /\ mainPc = "gasLimit"
    /\ IF Atoi(env.gasLimit).ok
       THEN gasLimit' = Atoi(env.gasLimit).val /\ mainPc' = "wallet"
       ELSE gasLimit' = gasLimit /\ mainPc' = "fatal"
    /\ UNCHANGED <<config, earlier, env, cancelled, chanVars, fVars, tpVars, mVars,
                   dbVars, mempool, faults, pdVars, fdVars, fcVars, emitted, sent, received>>

\* wallet, err := web3.NewWallet(...); log.Fatal on error
MainWallet ==
    /\ mainPc = "wallet"
    /\ mainPc' = IF env.wallet THEN "start" ELSE "fatal"
    /\ UNCHANGED <<envVars, cancelled, chanVars, fVars, tpVars, mVars, dbVars,
                   mempool, faults, pdVars, fdVars, fcVars, emitted, sent, received>>

\* the two make(chan ...) and the three go statements; main goes to <-ctx.Done()
MainStart ==
    /\ mainPc = "start"
    /\ mainPc' = "wait"
    /\ fPc' = "select" /\ tpPc' = "select" /\ mPc' = "select"
    /\ UNCHANGED <<envVars, cancelled, chanVars, fData, ticks, tpBatch, tpIdx, tpTxs,
                   tpData, mData, mGasPrice, mTx, mHash, dbVars, mempool, faults,
                   pdVars, fdVars, fcVars, emitted, sent, received>>

\* SIGINT or SIGTERM: signal.NotifyContext closes ctx.Done()
Cancel ==
    /\ Running /\ ~cancelled /\ mainPc # "loadEnv"
    /\ cancelled' = TRUE
    /\ UNCHANGED <<envVars, mainPc, chanVars, fVars, tpVars, mVars, dbVars,
                   mempool, faults, pdVars, fdVars, fcVars, emitted, sent, received>>

\* <-ctx.Done() returns and main returns: the deferred close(txChannel) runs
MainCloseTx ==
    /\ Running /\ mainPc = "wait" /\ cancelled
    /\ mainPc' = "closeData"
    /\ UNCHANGED <<envVars, cancelled, chanVars, fVars, tpVars, mVars, dbVars,
                   mempool, faults, pdVars, fdVars, fcVars, emitted, sent, received>>

\* the deferred close(dataChannel)
MainCloseData ==
    /\ Running /\ mainPc = "closeData"
    /\ mainPc' = "stop"
    /\ UNCHANGED <<envVars, cancelled, chanVars, fVars, tpVars, mVars, dbVars,
                   mempool, faults, pdVars, fdVars, fcVars, emitted, sent, received>>

\* the deferred stop(), and the process ends with main
MainExit ==
    /\ Running /\ mainPc = "stop"
    /\ mainPc' = "exited"
    /\ UNCHANGED <<envVars, cancelled, chanVars, fVars, tpVars, mVars, dbVars,
                   mempool, faults, pdVars, fdVars, fcVars, emitted, sent, received>>

(***************************************************************************)
(* worker.FetchWorker.                                                     *)
(***************************************************************************)
\* outer select, case <-ctx.Done()
FetcherDone ==
    /\ Running /\ fPc = "select" /\ cancelled
    /\ fPc' = "done"
    /\ UNCHANGED <<envVars, cancelled, mainPc, chanVars, fData, ticks, tpVars, mVars,
                   dbVars, mempool, faults, pdVars, fdVars, fcVars, emitted, sent, received>>

\* the tick, with the continue of the error branch left out: the data of the
\* failed fetch goes to the send
FetcherTickForwardsFailure ==
    /\ Running /\ fPc = "select" /\ MayTick
    /\ ticks' = ticks + 1
    /\ \E r \in FetchCollectionResults(config) :
          /\ IF r.err
             THEN Effort + 1 + FaultCost <= MaxTicks /\ faults' = faults + 1
             ELSE faults' = faults
          /\ fPc' = "send" /\ fData' = r.data
    /\ UNCHANGED <<envVars, cancelled, mainPc, chanVars, tpVars, mVars, dbVars,
                   mempool, pdVars, fdVars, fcVars, emitted, sent, received>>

\* outer select, case <-ticker.C: api.FetchCollection, continue on error
FetcherTick ==
    /\ Running /\ fPc = "select" /\ MayTick
    /\ ticks' = ticks + 1
    /\ \E r \in FetchCollectionResults(config) :
          IF r.err
          THEN /\ Effort + 1 + FaultCost <= MaxTicks
               /\ faults' = faults + 1
               /\ UNCHANGED <<fPc, fData>>
          ELSE /\ fPc' = "send" /\ fData' = r.data
               /\ faults' = faults
    /\ UNCHANGED <<envVars, cancelled, mainPc, chanVars, tpVars, mVars, dbVars,
                   mempool, pdVars, fdVars, fcVars, emitted, sent, received>>

\* the send, with an empty batch dropped instead of sent
FetcherSendSkipsEmpty ==
    /\ Running /\ fPc = "send" /\ ~DataClosed /\ Len(dataChan) < ChanCap
    /\ dataChan' = IF fData = <<>> THEN dataChan ELSE Append(dataChan, fData)
    /\ fPc' = "select" /\ fData' = <<>>
    /\ UNCHANGED <<envVars, cancelled, mainPc, txChan, ticks, tpVars, mVars, dbVars,
                   mempool, faults, pdVars, fdVars, fcVars, emitted, sent, received>>

\* inner select, case dataChan <- data, with room in the buffer
FetcherSend ==
    /\ Running /\ fPc = "send" /\ ~DataClosed /\ Len(dataChan) < ChanCap
    /\ dataChan' = Append(dataChan, fData)
    /\ fPc' = "select" /\ fData' = <<>>
    /\ UNCHANGED <<envVars, cancelled, mainPc, txChan, ticks, tpVars, mVars, dbVars,
                   mempool, faults, pdVars, fdVars, fcVars, emitted, sent, received>>

\* inner select, case <-ctx.Done(), taken when the select is evaluated
FetcherSendDone ==
    /\ Running /\ fPc = "send" /\ cancelled
    /\ fPc' = "done" /\ fData' = <<>>
    /\ UNCHANGED <<envVars, cancelled, mainPc, chanVars, ticks, tpVars, mVars, dbVars,
                   mempool, faults, pdVars, fdVars, fcVars, emitted, sent, received>>

\* inner select on a closed dataChan: the send panics
FetcherSendClosed ==
    /\ Running /\ fPc = "send" /\ DataClosed
    /\ fPc' = "panic"
    /\ UNCHANGED <<envVars, cancelled, mainPc, chanVars, fData, ticks, tpVars, mVars,
                   dbVars, mempool, faults, pdVars, fdVars, fcVars, emitted, sent, received>>

\* the inner select with no case ready, giving up the batch like a select with
\* a default case
FetcherParkDrops ==
    /\ Running /\ fPc = "send" /\ ~cancelled /\ ~DataClosed
    /\ Len(dataChan) = ChanCap
    /\ fPc' = "select" /\ fData' = <<>>
    /\ UNCHANGED <<envVars, cancelled, mainPc, chanVars, ticks, tpVars, mVars,
                   dbVars, mempool, faults, pdVars, fdVars, fcVars, emitted, sent, received>>

\* inner select with no case ready: the goroutine parks on both channels
FetcherPark ==
    /\ Running /\ fPc = "send" /\ ~cancelled /\ ~DataClosed
    /\ Len(dataChan) = ChanCap
    /\ fPc' = "parked"
    /\ UNCHANGED <<envVars, cancelled, mainPc, chanVars, fData, ticks, tpVars, mVars,
                   dbVars, mempool, faults, pdVars, fdVars, fcVars, emitted, sent, received>>

\* a parked inner select that the close of ctx.Done() woke, retrying the send
FetcherWakeRetry ==
    /\ Running /\ fPc = "parked" /\ cancelled
    /\ fPc' = "send"
    /\ UNCHANGED <<envVars, cancelled, mainPc, chanVars, fData, ticks, tpVars, mVars,
                   dbVars, mempool, faults, pdVars, fdVars, fcVars, emitted, sent, received>>

\* a parked inner select that the close of ctx.Done() woke: return
FetcherWake ==
    /\ Running /\ fPc = "parked" /\ cancelled
    /\ fPc' = "done" /\ fData' = <<>>
    /\ UNCHANGED <<envVars, cancelled, mainPc, chanVars, ticks, tpVars, mVars, dbVars,
                   mempool, faults, pdVars, fdVars, fcVars, emitted, sent, received>>

(***************************************************************************)
(* worker.TaskProcessor and helpers.BroadCast.                             *)
(***************************************************************************)
\* a receive from dataChan: the head leaves the buffer; a sender parked on the
\* full buffer (and not woken by ctx.Done()) completes its send with it
DataChanAfterRecv ==
    IF fPc = "parked" /\ ~cancelled
    THEN /\ dataChan' = Append(Tail(dataChan), fData)
         /\ fPc' = "select" /\ fData' = <<>>
    ELSE /\ dataChan' = Tail(dataChan)
         /\ UNCHANGED <<fPc, fData>>

\* select, case <-ctx.Done()
TaskProcessorDone ==
    /\ Running /\ tpPc = "select" /\ cancelled
    /\ tpPc' = "done"
    /\ UNCHANGED <<envVars, cancelled, mainPc, chanVars, fVars, tpBatch, tpIdx, tpTxs,
                   tpData, mVars, dbVars, mempool, faults, pdVars, fdVars, fcVars, emitted, sent, received>>

\* select, case data := <-dataChan: helpers.BroadCast(ctx, data, txChan)
TaskProcessorRecv ==
    /\ Running /\ tpPc = "select" /\ dataChan # <<>>
    /\ tpBatch' = Head(dataChan) /\ tpIdx' = 1 /\ tpPc' = "range"
    /\ DataChanAfterRecv
    /\ UNCHANGED <<envVars, cancelled, mainPc, txChan, ticks, tpTxs, tpData, mVars,
                   dbVars, mempool, faults, pdVars, fdVars, fcVars, emitted, sent, received>>

\* select, case data := <-dataChan on the closed, drained channel: data is nil
TaskProcessorRecvClosed ==
    /\ Running /\ tpPc = "select" /\ dataChan = <<>> /\ DataClosed
    /\ tpBatch' = <<>> /\ tpIdx' = 1 /\ tpPc' = "range"
    /\ UNCHANGED <<envVars, cancelled, mainPc, chanVars, fVars, tpTxs, tpData, mVars,
                   dbVars, mempool, faults, pdVars, fdVars, fcVars, emitted, sent, received>>

\* the range is exhausted: BroadCast returns to TaskProcessor's loop
BroadCastReturn ==
    /\ Running /\ tpPc = "range" /\ tpIdx > Len(tpBatch)
    /\ tpPc' = "select" /\ tpBatch' = <<>> /\ tpIdx' = 1
    /\ UNCHANGED <<envVars, cancelled, mainPc, chanVars, fVars, tpTxs, tpData, mVars,
                   dbVars, mempool, faults, pdVars, fdVars, fcVars, emitted, sent, received>>

\* the check at the head of the loop body finds ctx.Done() closed: return
BroadCastCancelled ==
    /\ Running /\ tpPc = "range" /\ tpIdx <= Len(tpBatch) /\ cancelled
    /\ tpPc' = "select" /\ tpBatch' = <<>> /\ tpIdx' = 1
    /\ UNCHANGED <<envVars, cancelled, mainPc, chanVars, fVars, tpTxs, tpData, mVars,
                   dbVars, mempool, faults, pdVars, fdVars, fcVars, emitted, sent, received>>

\* the query, without the check of ctx.Done() before it
BroadCastQueryUnchecked ==
    /\ Running /\ tpPc = "range" /\ tpIdx <= Len(tpBatch)
    /\ \E ans \in GetTransactionResults(tpBatch[tpIdx]) :
          /\ tpTxs' = ans
          /\ IF ans.err \/ ProcessData(tpBatch[tpIdx], ans.txs).err # ErrNone
             THEN MayFail /\ faults' = faults + 1
             ELSE faults' = faults
    /\ tpPc' = "process"
    /\ UNCHANGED <<envVars, cancelled, mainPc, chanVars, fVars, tpBatch, tpIdx, tpData,
                   mVars, dbVars, mempool, pdVars, fdVars, fcVars, emitted, sent, received>>

\* transactions, err := api.GetTransaction(ctx, col)
BroadCastQuery ==
    /\ Running /\ tpPc = "range" /\ tpIdx <= Len(tpBatch) /\ ~cancelled
    /\ \E ans \in GetTransactionResults(tpBatch[tpIdx]) :
          /\ tpTxs' = ans
          /\ IF ans.err \/ ProcessData(tpBatch[tpIdx], ans.txs).err # ErrNone
             THEN MayFail /\ faults' = faults + 1
             ELSE faults' = faults
    /\ tpPc' = "process"
    /\ UNCHANGED <<envVars, cancelled, mainPc, chanVars, fVars, tpBatch, tpIdx, tpData,
                   mVars, dbVars, mempool, pdVars, fdVars, fcVars, emitted, sent, received>>

\* the same, with return in place of continue after a failed query
BroadCastProcessReturns ==
    /\ Running /\ tpPc = "process"
    /\ LET r == ProcessData(tpBatch[tpIdx], tpTxs.txs)
       IN  IF tpTxs.err
           THEN /\ tpPc' = "select" /\ tpBatch' = <<>> /\ tpIdx' = 1
                /\ tpData' = ZeroProcessedData
           ELSE IF r.err # ErrNone
           THEN /\ tpPc' = "range" /\ tpIdx' = tpIdx + 1 /\ tpData' = ZeroProcessedData
                /\ tpBatch' = tpBatch
           ELSE /\ tpPc' = "send" /\ tpIdx' = tpIdx /\ tpData' = r.data
                /\ tpBatch' = tpBatch
    /\ tpTxs' = NoAnswer
    /\ UNCHANGED <<envVars, cancelled, mainPc, chanVars, fVars, mVars, dbVars,
                   mempool, faults, pdVars, fdVars, fcVars, emitted, sent, received>>

\* the two continue statements, or data is ready for the send
BroadCastProcess ==
    /\ Running /\ tpPc = "process"
    /\ LET r == ProcessData(tpBatch[tpIdx], tpTxs.txs)
       IN  IF tpTxs.err \/ r.err # ErrNone
           THEN tpPc' = "range" /\ tpIdx' = tpIdx + 1 /\ tpData' = ZeroProcessedData
           ELSE tpPc' = "send" /\ tpIdx' = tpIdx /\ tpData' = r.data
    /\ tpTxs' = NoAnswer
    /\ UNCHANGED <<envVars, cancelled, mainPc, chanVars, fVars, tpBatch, mVars, dbVars,
                   mempool, faults, pdVars, fdVars, fcVars, emitted, sent, received>>

\* the send, with data put at the head of the buffer
BroadCastSendFront ==
    /\ Running /\ tpPc = "send" /\ ~TxClosed /\ Len(txChan) < ChanCap
    /\ txChan' = <<tpData>> \o txChan
    /\ emitted' = emitted \cup {tpData.Contract}
    /\ tpPc' = "range" /\ tpIdx' = tpIdx + 1 /\ tpData' = ZeroProcessedData
    /\ sent' = Append(sent, tpData)
    /\ UNCHANGED <<envVars, cancelled, mainPc, dataChan, fVars, tpBatch, tpTxs, mVars,
                   dbVars, mempool, faults, pdVars, fdVars, fcVars, received>>

\* select, case txChan <- data, with room in the buffer
BroadCastSend ==
    /\ Running /\ tpPc = "send" /\ ~TxClosed /\ Len(txChan) < ChanCap
    /\ txChan' = Append(txChan, tpData)
    /\ emitted' = emitted \cup {tpData.Contract}
    /\ tpPc' = "range" /\ tpIdx' = tpIdx + 1 /\ tpData' = ZeroProcessedData
    /\ sent' = Append(sent, tpData)
    /\ UNCHANGED <<envVars, cancelled, mainPc, dataChan, fVars, tpBatch, tpTxs, mVars,
                   dbVars, mempool, faults, pdVars, fdVars, fcVars, received>>

\* select, case <-ctx.Done(), taken when the select is evaluated: return
BroadCastSendDone ==
    /\ Running /\ tpPc = "send" /\ cancelled
    /\ tpPc' = "select" /\ tpBatch' = <<>> /\ tpIdx' = 1 /\ tpData' = ZeroProcessedData
    /\ UNCHANGED <<envVars, cancelled, mainPc, chanVars, fVars, tpTxs, mVars, dbVars,
                   mempool, faults, pdVars, fdVars, fcVars, emitted, sent, received>>

\* select on a closed txChan: the send panics
BroadCastSendClosed ==
    /\ Running /\ tpPc = "send" /\ TxClosed
    /\ tpPc' = "panic"
    /\ UNCHANGED <<envVars, cancelled, mainPc, chanVars, fVars, tpBatch, tpIdx, tpTxs,
                   tpData, mVars, dbVars, mempool, faults, pdVars, fdVars, fcVars, emitted, sent, received>>

\* select with no case ready: the goroutine parks on both channels
BroadCastPark ==
    /\ Running /\ tpPc = "send" /\ ~cancelled /\ ~TxClosed
    /\ Len(txChan) = ChanCap
    /\ tpPc' = "parked"
    /\ UNCHANGED <<envVars, cancelled, mainPc, chanVars, fVars, tpBatch, tpIdx, tpTxs,
                   tpData, mVars, dbVars, mempool, faults, pdVars, fdVars, fcVars, emitted, sent, received>>

\* a parked select that the close of ctx.Done() woke: BroadCast returns
BroadCastWake ==
    /\ Running /\ tpPc = "parked" /\ cancelled
    /\ tpPc' = "select" /\ tpBatch' = <<>> /\ tpIdx' = 1 /\ tpData' = ZeroProcessedData
    /\ UNCHANGED <<envVars, cancelled, mainPc, chanVars, fVars, tpTxs, mVars, dbVars,
                   mempool, faults, pdVars, fdVars, fcVars, emitted, sent, received>>

(***************************************************************************)
(* worker.Minter and helpers.Transaction.                                  *)
(***************************************************************************)
\* a receive from txChan that leaves a parked sender parked
TxChanAfterRecvLosesWakeup ==
    /\ txChan' = Tail(txChan)
    /\ UNCHANGED <<tpPc, tpIdx, tpData, emitted, sent>>

\* a receive from txChan: the head leaves the buffer; a sender parked on the
\* full buffer (and not woken by ctx.Done()) completes its send with it
TxChanAfterRecv ==
    IF tpPc = "parked" /\ ~cancelled
    THEN /\ txChan' = Append(Tail(txChan), tpData)
         /\ emitted' = emitted \cup {tpData.Contract}
         /\ sent' = Append(sent, tpData)
         /\ tpPc' = "range" /\ tpIdx' = tpIdx + 1 /\ tpData' = ZeroProcessedData
    ELSE /\ txChan' = Tail(txChan)
         /\ UNCHANGED <<tpPc, tpIdx, tpData, emitted, sent>>

\* Transaction returns to Minter's loop
TransactionReturns ==
    /\ mPc' = "select" /\ mData' = ZeroProcessedData /\ mGasPrice' = 0
    /\ mTx' = ZeroTx /\ mHash' = ""

\* an external call of Transaction fails, and the failure ends Minter's loop
CallFailsStops ==
    /\ MayFail /\ faults' = faults + 1
    /\ mPc' = "done" /\ mData' = ZeroProcessedData /\ mGasPrice' = 0
    /\ mTx' = ZeroTx /\ mHash' = ""

\* an external call of Transaction fails, and Transaction goes on to its next
\* step with what it has
CallFailsGoesOn ==
    /\ MayFail /\ faults' = faults + 1
    /\ mPc' = IF mPc = "lookup" THEN "estimate"
              ELSE IF mPc = "estimate" THEN "build"
              ELSE IF mPc = "build" THEN "send"
              ELSE IF mPc = "send" THEN "insert" ELSE "select"
    /\ UNCHANGED <<mData, mGasPrice, mTx, mHash>>

\* an external call of Transaction fails, and the step is tried again
CallFailsRetries ==
    /\ MayFail /\ faults' = faults + 1
    /\ UNCHANGED <<mPc, mData, mGasPrice, mTx, mHash>>

\* an external call of Transaction fails: if err != nil { return }
CallFails ==
    /\ MayFail /\ faults' = faults + 1
    /\ TransactionReturns

\* select, case <-ctx.Done()
MinterDone ==
    /\ Running /\ mPc = "select" /\ cancelled
    /\ mPc' = "done"
    /\ UNCHANGED <<envVars, cancelled, mainPc, chanVars, fVars, tpVars, mData, mGasPrice,
                   mTx, mHash, dbVars, mempool, faults, pdVars, fdVars, fcVars, emitted, sent, received>>

\* select, case tx := <-txChan: helpers.Transaction(ctx, tx, db, wallet)
MinterRecv ==
    /\ Running /\ mPc = "select" /\ txChan # <<>>
    /\ mData' = Head(txChan) /\ mPc' = "lookup"
    /\ received' = Append(received, Head(txChan))
    /\ TxChanAfterRecv
    /\ UNCHANGED <<envVars, cancelled, mainPc, dataChan, fVars, tpBatch, tpTxs,
                   mGasPrice, mTx, mHash, dbVars, mempool, faults, pdVars, fdVars, fcVars>>

\* select, case tx := <-txChan on the closed, drained channel: tx is the zero value
MinterRecvClosed ==
    /\ Running /\ mPc = "select" /\ txChan = <<>> /\ TxClosed
    /\ mData' = ZeroProcessedData /\ mPc' = "lookup"
    /\ UNCHANGED <<envVars, cancelled, mainPc, chanVars, fVars, tpVars, mGasPrice, mTx,
                   mHash, dbVars, mempool, faults, pdVars, fdVars, fcVars, emitted, sent, received>>

\* the lookup, with a filter that matches no document
GetTransactionsFromDbMiss(address) == \E d \in transactions : d.name = address

\* persister.GetTransactionsFromDb: FindOne with filter {address: address}
GetTransactionsFromDb(address) == \E d \in transactions : d.address = address

\* the lookup, with its error taken for "not recorded"
TransactionLookupFailsOpen ==
    /\ Running /\ mPc = "lookup"
    /\ \/ /\ MayFail /\ faults' = faults + 1
          /\ mPc' = "estimate"
          /\ UNCHANGED <<mData, mGasPrice, mTx, mHash>>
       \/ /\ GetTransactionsFromDb(mData.Contract)
          /\ TransactionReturns /\ faults' = faults
       \/ /\ ~GetTransactionsFromDb(mData.Contract)
          /\ mPc' = "estimate"
          /\ UNCHANGED <<mData, mGasPrice, mTx, mHash, faults>>
    /\ UNCHANGED <<envVars, cancelled, mainPc, chanVars, fVars, tpVars, dbVars, mempool,
                   pdVars, fdVars, fcVars, emitted, sent, received>>

\* isMinted, err := persister.GetTransactionsFromDb(ctx, data.Contract)
TransactionLookup ==
    /\ Running /\ mPc = "lookup"
    /\ \/ CallFails
       \/ /\ GetTransactionsFromDb(mData.Contract)
          /\ TransactionReturns /\ faults' = faults
       \/ /\ ~GetTransactionsFromDb(mData.Contract)
          /\ mPc' = "estimate"
          /\ UNCHANGED <<mData, mGasPrice, mTx, mHash, faults>>
    /\ UNCHANGED <<envVars, cancelled, mainPc, chanVars, fVars, tpVars, dbVars, mempool,
                   pdVars, fdVars, fcVars, emitted, sent, received>>

\* gasPrice, err := wallet.EstimateGasPrice(ctx)
TransactionEstimate ==
    /\ Running /\ mPc = "estimate"
    /\ \/ CallFails
       \/ /\ \E g \in GasPrices : mGasPrice' = g
          /\ mPc' = "build"
          /\ UNCHANGED <<mData, mTx, mHash, faults>>
    /\ UNCHANGED <<envVars, cancelled, mainPc, chanVars, fVars, tpVars, dbVars, mempool,
                   pdVars, fdVars, fcVars, emitted, sent, received>>

\* the nonce as it was when the wallet was made, not asked of the node again
PendingNonceAtStart == Len(earlier.mempool)

\* w.client.PendingNonceAt(ctx, w.address)
PendingNonceAt == Len(mempool)

\* wallet.CreateTransaction(ctx, common.HexToAddress(data.To), big.NewInt(0),
\*                          gasPrice, []byte(data.CallData))
CreateTransaction(to, value, gasPrice, data) ==
    NewTransaction(PendingNonceAt, to, value, gasLimit, gasPrice, data)

\* the build, addressed to the collection's contract instead of data.To
TransactionBuildToContract ==
    /\ Running /\ mPc = "build"
    /\ \/ CallFails
       \/ /\ mTx' = CreateTransaction(HexToAddress(mData.Contract), 0, mGasPrice,
                                      mData.CallData)
          /\ mPc' = "send"
          /\ UNCHANGED <<mData, mGasPrice, mHash, faults>>
    /\ UNCHANGED <<envVars, cancelled, mainPc, chanVars, fVars, tpVars, dbVars, mempool,
                   pdVars, fdVars, fcVars, emitted, sent, received>>

\* tx, err := wallet.CreateTransaction(...)
TransactionBuild ==
    /\ Running /\ mPc = "build"
    /\ \/ CallFails
       \/ /\ mTx' = CreateTransaction(HexToAddress(mData.To), 0, mGasPrice, mData.CallData)
          /\ mPc' = "send"
          /\ UNCHANGED <<mData, mGasPrice, mHash, faults>>
    /\ UNCHANGED <<envVars, cancelled, mainPc, chanVars, fVars, tpVars, dbVars, mempool,
                   pdVars, fdVars, fcVars, emitted, sent, received>>

\* hash, err := wallet.SendTransaction(ctx, tx): the node accepts signedTx
TransactionSendKeepsHash ==
    /\ Running /\ mPc = "send"
    /\ \/ CallFails /\ UNCHANGED mempool
       \/ /\ mempool' = Append(mempool, [contract |-> mData.Contract, tx |-> mTx])
          /\ mPc' = "insert"
          /\ UNCHANGED <<mData, mGasPrice, mTx, mHash, faults>>
    /\ UNCHANGED <<envVars, cancelled, mainPc, chanVars, fVars, tpVars, dbVars, pdVars, fdVars, fcVars, emitted, sent, received>>

\* hash, err := wallet.SendTransaction(ctx, tx)
TransactionSend ==
    /\ Running /\ mPc = "send"
    /\ \/ CallFails /\ UNCHANGED mempool
       \/ /\ mempool' = Append(mempool, [contract |-> mData.Contract, tx |-> mTx])
          /\ mHash' = TxHash(mTx)
          /\ mPc' = "insert"
          /\ UNCHANGED <<mData, mGasPrice, mTx, faults>>
    /\ UNCHANGED <<envVars, cancelled, mainPc, chanVars, fVars, tpVars, dbVars, pdVars, fdVars, fcVars, emitted, sent, received>>

\* the insert, with name and address stored under each other's key
InsertTransactionToDbSwapped(name, address, quantity, hash) ==
    transactions' = transactions \cup {Document(address, hash, quantity, name)}

\* txData of Transaction, as InsertTransactionToDb writes it
InsertTransactionToDb(name, address, quantity, hash) ==
    transactions' = transactions \cup {Document(name, hash, quantity, address)}

\* err = persister.InsertTransactionToDb(ctx, txData)
TransactionInsert ==
    /\ Running /\ mPc = "insert"
    /\ \/ CallFails /\ UNCHANGED transactions
       \/ /\ InsertTransactionToDb(mData.Name, mData.Contract, mData.Quantity, mHash)
          /\ TransactionReturns /\ faults' = faults
    /\ UNCHANGED <<envVars, cancelled, mainPc, chanVars, fVars, tpVars, errorLog, mempool,
                   pdVars, fdVars, fcVars, emitted, sent, received>>

(***************************************************************************)
(* The run of the program.                                                 *)
(***************************************************************************)
Next ==
    \/ MainLoadEnv \/ MainConnect \/ MainGasLimit \/ MainWallet \/ MainStart
    \/ Cancel \/ MainCloseTx \/ MainCloseData \/ MainExit
    \/ FetcherDone \/ FetcherTick \/ FetcherSend \/ FetcherSendDone
    \/ FetcherSendClosed \/ FetcherPark \/ FetcherWake
    \/ TaskProcessorDone \/ TaskProcessorRecv \/ TaskProcessorRecvClosed
    \/ BroadCastReturn \/ BroadCastCancelled \/ BroadCastQuery \/ BroadCastProcess
    \/ BroadCastSend \/ BroadCastSendDone \/ BroadCastSendClosed
    \/ BroadCastPark \/ BroadCastWake
    \/ MinterDone \/ MinterRecv \/ MinterRecvClosed
    \/ TransactionLookup \/ TransactionEstimate \/ TransactionBuild
    \/ TransactionSend \/ TransactionInsert

Spec == Init /\ [][Next]_vars

(***************************************************************************)
(* The run under fair scheduling.  The Go scheduler runs every goroutine   *)
(* that can take a step (weak fairness of each goroutine's steps, the tick *)
(* and the signal excepted: they come from outside), and a select chooses  *)
(* at random among its ready cases, so a <-ctx.Done() case that is ready   *)
(* again and again is taken (strong fairness of the Done cases).           *)
(***************************************************************************)
MainNext ==
    \/ MainLoadEnv \/ MainConnect \/ MainGasLimit \/ MainWallet \/ MainStart
    \/ MainCloseTx \/ MainCloseData \/ MainExit

FetchWorkerNext ==
    \/ FetcherDone \/ FetcherSend \/ FetcherSendDone \/ FetcherSendClosed
    \/ FetcherPark \/ FetcherWake

TaskProcessorNext ==
    \/ TaskProcessorDone \/ TaskProcessorRecv \/ TaskProcessorRecvClosed
    \/ BroadCastReturn \/ BroadCastCancelled \/ BroadCastQuery \/ BroadCastProcess
    \/ BroadCastSend \/ BroadCastSendDone \/ BroadCastSendClosed
    \/ BroadCastPark \/ BroadCastWake

MinterNext ==
    \/ MinterDone \/ MinterRecv \/ MinterRecvClosed
    \/ TransactionLookup \/ TransactionEstimate \/ TransactionBuild
    \/ TransactionSend \/ TransactionInsert

Fairness ==
    /\ WF_vars(MainNext)
    /\ WF_vars(FetchWorkerNext) /\ SF_vars(FetcherDone) /\ SF_vars(FetcherSendDone)
    /\ WF_vars(TaskProcessorNext) /\ SF_vars(TaskProcessorDone)
    /\ SF_vars(BroadCastSendDone)
    /\ WF_vars(MinterNext) /\ SF_vars(MinterDone)

SpecFair == Spec /\ Fairness

(***************************************************************************)
(* helpers.ProcessData on its own: the candidates are drawn, the function  *)
(* is applied once.                                                        *)
(***************************************************************************)
\* nftCount strings: small counts, zero, a sign, the largest int, one past it,
\* and strings that are no integer
NftCounts ==
    {<<"0">>, <<"1">>, <<"3">>, <<"-", "1">>, Itoa(MaxInt), Itoa(MaxInt + 1), <<"x">>, <<>>}

Candidates ==
    {Transaction(d[1], d[2], n, "0") :
        d \in {<<Demo1, "0x">>, <<Demo2, "0xa0">>}, n \in NftCounts}

RECURSIVE SeqsUpTo(_, _)
\* the sequences over S of length at most n
SeqsUpTo(S, n) ==
    IF n = 0 THEN {<<>>}
    ELSE LET shorter == SeqsUpTo(S, n - 1)
         IN  shorter \cup {Append(q, x) : q \in shorter, x \in S}

InitProcessData ==
    /\ InitPipeline(DemoConfig, CHOOSE e \in EarlierRuns : e.mempool = <<>>)
    /\ pdColl = Collection(Demo1, "Demo NFT Collection #1", <<>>)
    /\ pdTxs \in SeqsUpTo(Candidates, MaxCandidates)
    /\ pdOut = PdPending
    /\ fdStr = <<>> /\ fdOut = FdPending
    /\ fcIn = <<>> /\ fcOut = FcPending

\* data, err := ProcessData(ctx, col, transactions)
CallProcessData ==
    /\ pdOut = PdPending
    /\ pdOut' = ProcessData(pdColl, pdTxs)
    /\ UNCHANGED <<envVars, cancelled, mainPc, chanVars, fVars, tpVars, mVars, dbVars,
                   mempool, faults, emitted, sent, received, pdColl, pdTxs, fdVars, fcVars>>

SpecProcessData == InitProcessData /\ [][CallProcessData]_vars

(***************************************************************************)
(* helpers.Transaction on its own: Minter and the items on txChan, with    *)
(* destinations, payloads and native values of every kind, and two gas     *)
(* limits.  The live pipeline has put one item per tick on txChan for the  *)
(* one contract it fetches; the other stages are idle.                     *)
(***************************************************************************)
\* candidates as the candidate source's type allows them
TxCandidates ==
    {Transaction(to, cd, <<"1">>, ev) :
        to \in {Demo1, "0x3333333333333333333333333333333333333333"},
        cd \in {"0x", "0xa0"},
        ev \in {"0", "5"}}

\* the ProcessedData that ProcessData makes of them for the fetched collection
SelectedItems ==
    {ProcessData(Collection(Demo1, "Demo NFT Collection #1", <<>>), <<t>>).data :
        t \in TxCandidates}

\* GAS_LIMIT values of the environment
WalletGasLimits == {12, 14}

InitTransaction ==
    /\ config = LiveConfig
    /\ earlier = CHOOSE e \in EarlierRuns : e.mempool = <<>>
    /\ gasLimit \in WalletGasLimits
    /\ env = [GoodEnv EXCEPT !.gasLimit = Itoa(gasLimit)]
    /\ cancelled = FALSE
    /\ mainPc = "wait"
    /\ dataChan = <<>>
    /\ txChan \in SeqsUpTo(SelectedItems, 2) \ {<<>>}
    /\ fPc = "select" /\ fData = <<>> /\ ticks = Len(txChan)
    /\ tpPc = "select" /\ tpBatch = <<>> /\ tpIdx = 1 /\ tpTxs = NoAnswer
    /\ tpData = ZeroProcessedData
    /\ mPc = "select" /\ mData = ZeroProcessedData /\ mGasPrice = 0
    /\ mTx = ZeroTx /\ mHash = ""
    /\ mempool = <<>> /\ transactions = {}
    /\ errorLog = {}
    /\ faults = 0
    /\ emitted = {Demo1}
    /\ sent = txChan /\ received = <<>>
    /\ pdColl = Collection("", "", <<>>) /\ pdTxs = <<>> /\ pdOut = PdPending
    /\ fdStr = <<>> /\ fdOut = FdPending
    /\ fcIn = <<>> /\ fcOut = FcPending

NextTransaction ==
    \/ MinterRecv
    \/ TransactionLookup \/ TransactionEstimate \/ TransactionBuild
    \/ TransactionSend \/ TransactionInsert

SpecTransaction == InitTransaction /\ [][NextTransaction]_vars

(***************************************************************************)
(* The pipeline while no signal arrives: main stays at <-ctx.Done(), the   *)
(* three stages run, and every call a stage makes returns.  The ticker is  *)
(* free to fire or not; a stage that can take a step takes one.            *)
(***************************************************************************)
InitProgress ==
    /\ \E c \in Configs, e \in EarlierRuns : InitPipeline(c, e)
    /\ pdColl = Collection("", "", <<>>) /\ pdTxs = <<>> /\ pdOut = PdPending
    /\ fdStr = <<>> /\ fdOut = FdPending
    /\ fcIn = <<>> /\ fcOut = FcPending

FetchWorkerProgress == FetcherSend \/ FetcherPark

TaskProcessorProgress ==
    \/ TaskProcessorRecv \/ BroadCastReturn \/ BroadCastSend \/ BroadCastPark

\* where BroadCastQuery is enabled, and where BroadCastProcess is: each has no
\* other condition than its place in the loop, and each leaves that place
AtQuery == tpPc = "range" /\ tpIdx <= Len(tpBatch)
AtProcess == tpPc = "process"

MinterProgress ==
    \/ MinterRecv
    \/ TransactionLookup \/ TransactionEstimate \/ TransactionBuild
    \/ TransactionSend \/ TransactionInsert

NextProgress ==
    \/ FetcherTick \/ FetcherSend \/ FetcherPark
    \/ TaskProcessorRecv \/ BroadCastReturn \/ BroadCastQuery \/ BroadCastProcess
    \/ BroadCastSend \/ BroadCastPark
    \/ MinterRecv
    \/ TransactionLookup \/ TransactionEstimate \/ TransactionBuild
    \/ TransactionSend \/ TransactionInsert

\* weak fairness of each stage; for BroadCastQuery and BroadCastProcess it is
\* written out as "not for ever at its place"
FairProgress ==
    /\ WF_vars(FetchWorkerProgress)
    /\ WF_vars(TaskProcessorProgress)
    /\ []<>~AtQuery
    /\ []<>~AtProcess
    /\ WF_vars(MinterProgress)

SpecProgress == InitProgress /\ [][NextProgress]_vars /\ FairProgress

(***************************************************************************)
(* The start of worker.FetchWorker on its own: FETCH_DURATION is drawn,    *)
(* the code up to the polling loop is applied once.                        *)
(***************************************************************************)
\* time.Second, at the scale of IntSize
Second == 2

\* the "60" of fetcher.go, at the scale of IntSize
DefaultFetchDuration == <<"6">>

\* a product in time.Duration: it wraps at the width of the integer
WrapMul(a, b) == ((a * b - MinInt) % (2 ^ IntSize)) + MinInt

\* fetchDuration as lines 14-23 compute it from the setting
FetchDuration(str) ==
    LET fetchDurationStr == IF str = <<>> THEN DefaultFetchDuration ELSE str
        r == Atoi(fetchDurationStr)
    IN  IF r.ok THEN r.val ELSE Atoi(DefaultFetchDuration).val

\* time.NewTicker(d) panics for a non-positive d
NewTicker(d) ==
    IF d <= 0 THEN [pc |-> "panic", interval |-> d] ELSE [pc |-> "select", interval |-> d]

\* FETCH_DURATION settings: unset or empty, digits, a sign, no number
FetchDurationChars == {"0", "1", "5", "6", "-", "x"}
MaxSettingLen == 3

InitFetchWorker ==
    /\ InitPipeline(DemoConfig, CHOOSE e \in EarlierRuns : e.mempool = <<>>)
    /\ pdColl = Collection("", "", <<>>) /\ pdTxs = <<>> /\ pdOut = PdPending
    /\ fdStr \in SeqsUpTo(FetchDurationChars, MaxSettingLen)
    /\ fdOut = FdPending
    /\ fcIn = <<>> /\ fcOut = FcPending

\* go worker.FetchWorker(ctx, dataChannel), up to the for statement
StartFetchWorker ==
    /\ fdOut = FdPending
    /\ fdOut' = NewTicker(WrapMul(FetchDuration(fdStr), Second))
    /\ UNCHANGED <<envVars, cancelled, mainPc, chanVars, fVars, tpVars, mVars, dbVars,
                   mempool, faults, emitted, sent, received, pdVars, fdStr, fcVars>>

SpecFetchWorker == InitFetchWorker /\ [][StartFetchWorker]_vars

(***************************************************************************)
(* api.filterCollections on its own: the argument is drawn, the function   *)
(* is applied once.                                                        *)
(***************************************************************************)
MaxBatch == 3

\* collections with a repeated, a second and an empty address, reported and
\* not, and two names to tell the occurrences of an address apart
FilterInputs ==
    {Collection(c, n, rep) :
        c \in {Demo1, Demo2, ""}, n \in {"a", "b"}, rep \in {<<>>, <<"spam">>}}

InitFilter ==
    /\ InitPipeline(LiveConfig, CHOOSE e \in EarlierRuns : e.mempool = <<>>)
    /\ pdColl = Collection("", "", <<>>) /\ pdTxs = <<>> /\ pdOut = PdPending
    /\ fdStr = <<>> /\ fdOut = FdPending
    /\ fcIn \in SeqsUpTo(FilterInputs, MaxBatch)
    /\ fcOut = FcPending

\* filteredCollections := filterCollections(allCollections)
CallFilterCollections ==
    /\ ~fcOut.done
    /\ fcOut' = [done |-> TRUE, filtered |-> filterCollections(fcIn)]
    /\ UNCHANGED <<envVars, cancelled, mainPc, chanVars, fVars, tpVars, mVars, dbVars,
                   mempool, faults, emitted, sent, received, pdVars, fdVars, fcIn>>

SpecFilter == InitFilter /\ [][CallFilterCollections]_vars

(***************************************************************************)
(* Notions the properties share.                                           *)
(***************************************************************************)
\* a TransactionRecord exists for contract c
Recorded(c) == \E d \in transactions : d.address = c

\* broadcasts the node accepted for contract c, earlier runs included
Broadcasts(c) == Cardinality({i \in 1..Len(mempool) : mempool[i].contract = c})

DemoContracts == {Demo1, Demo2, Demo3}

\* this step is Transaction returning because one of its steps 2-5 failed
SubmissionStepFails ==
    /\ mPc \in {"estimate", "build", "send", "insert"}
    /\ faults' > faults
    /\ mPc' # mPc

\* what this run added to the node and to the database
NewBroadcasts == SubSeq(mempool, Len(earlier.mempool) + 1, Len(mempool))
NewBroadcastContracts == {NewBroadcasts[i].contract : i \in 1..Len(NewBroadcasts)}
NewRecords == transactions \ earlier.transactions
EarlierContracts == {d.address : d \in earlier.transactions}

\* every tick taken has been worked off, nothing failed, nobody cancelled
Quiescent ==
    /\ ~cancelled /\ faults = 0 /\ ticks >= 1
    /\ fPc = "select" /\ tpPc = "select" /\ mPc = "select"
    /\ dataChan = <<>> /\ txChan = <<>>

\* the parsed counts of a candidate list, and their minimum
AllParse(txs) == \A i \in 1..Len(txs) : Atoi(txs[i].NftCount).ok
Counts(txs) == {Atoi(txs[i].NftCount).val : i \in 1..Len(txs)}
MinCount(txs) == CHOOSE m \in Counts(txs) : \A v \in Counts(txs) : m <= v
FirstMin(txs) ==
    CHOOSE i \in 1..Len(txs) :
        /\ Atoi(txs[i].NftCount).val = MinCount(txs)
        /\ \A j \in 1..(i - 1) : Atoi(txs[j].NftCount).val # MinCount(txs)

(***************************************************************************)
(* C1.  While Transaction is at its lookup for a contract that has a       *)
(* TransactionRecord, no step takes it to the gas estimate, and the node's *)
(* accepted transactions and the records stay as they are: the item is     *)
(* skipped without estimate, build, broadcast or insert.                   *)
(***************************************************************************)
C1_Idempotency ==
    [][(mPc = "lookup" /\ Recorded(mData.Contract))
         => /\ mPc' \in {"lookup", "select"}
            /\ mempool' = mempool
            /\ transactions' = transactions]_vars

C1_Witness == mPc = "lookup" /\ mData.Contract \in DemoContracts /\ Recorded(mData.Contract)

(***************************************************************************)
(* C2.  The node never accepts more than one broadcast for one contract    *)
(* address, whatever steps fail and however often the contract is          *)
(* discovered.                                                             *)
(***************************************************************************)
C2_AtMostOneBroadcast == \A c \in DemoContracts : Broadcasts(c) <= 1

(***************************************************************************)
(* C3.  For a non-empty candidate list whose counts all parse, ProcessData *)
(* returns no error and a Quantity equal to the minimum of the counts.     *)
(***************************************************************************)
C3_Minimality ==
    (pdOut # PdPending /\ pdTxs # <<>> /\ AllParse(pdTxs))
        => (pdOut.err = ErrNone /\ pdOut.data.Quantity = MinCount(pdTxs))

(***************************************************************************)
(* C4.  The SelectedItem ProcessData returns carries To and CallData of    *)
(* the first candidate, in input order, that has the minimum count.        *)
(***************************************************************************)
C4_TieBreaking ==
    (pdOut # PdPending /\ pdOut.err = ErrNone)
        => /\ pdOut.data.To = pdTxs[FirstMin(pdTxs)].To
           /\ pdOut.data.CallData = pdTxs[FirstMin(pdTxs)].CallData

C4_Witness ==
    /\ pdOut # PdPending /\ pdOut.err = ErrNone
    /\ \E i, j \in 1..Len(pdTxs) :
          /\ i < j
          /\ Atoi(pdTxs[i].NftCount).val = MinCount(pdTxs)
          /\ Atoi(pdTxs[j].NftCount).val = MinCount(pdTxs)
          /\ pdTxs[i].To # pdTxs[j].To
          /\ pdOut.data.To = pdTxs[i].To

(***************************************************************************)
(* C5.  A step of Transaction that fails sends Minter back to its select   *)
(* and leaves both queues and the Selection stage as they were, so the     *)
(* items behind the failed one are still there to be received; and Minter  *)
(* ends only after cancellation.                                           *)
(***************************************************************************)
C5_Isolation ==
    /\ [][SubmissionStepFails
            => /\ mPc' = "select"
               /\ txChan' = txChan /\ dataChan' = dataChan
               /\ tpVars' = tpVars /\ fVars' = fVars]_vars
    /\ [](mPc = "done" => cancelled)

\* Demo1's broadcast was accepted but its insert failed; Demo3, behind it in the
\* same batch, is broadcast and recorded
C5_Witness ==
    /\ ticks = 1 /\ faults = 1
    /\ Broadcasts(Demo1) = 1 /\ ~Recorded(Demo1)
    /\ Broadcasts(Demo3) = 1 /\ Recorded(Demo3)

(***************************************************************************)
(* C6.  Once ctx.Done() is closed while FetchWorker (BroadCast) is parked  *)
(* in its send on the full queue, its next step is the return, and no step *)
(* appends to the queue in between; FetchWorker stays returned.            *)
(***************************************************************************)
C6_BlockedSendCancelled ==
    [][/\ (fPc = "parked" /\ cancelled)
            => /\ fPc' \in {"parked", "done"}
               /\ \/ dataChan' = dataChan
                  \/ dataChan # <<>> /\ dataChan' = Tail(dataChan)
       /\ (tpPc = "parked" /\ cancelled)
            => /\ tpPc' \in {"parked", "select"}
               /\ tpPc' = "select" => tpBatch' = <<>> /\ tpData' = ZeroProcessedData
               /\ \/ txChan' = txChan
                  \/ txChan # <<>> /\ txChan' = Tail(txChan)
       /\ fPc = "done" => fPc' = "done"]_vars

C6_Witness == cancelled /\ fPc = "parked" /\ Len(dataChan) = ChanCap /\ fData # <<>>

(***************************************************************************)
(* C7.  As the claim has it: no empty batch is ever on the queue from      *)
(* Discovery to Selection, and BroadCast puts nothing on txChan for one.   *)
(***************************************************************************)
C7_NoMessageForEmptyFetch ==
    /\ [](\A i \in 1..Len(dataChan) : dataChan[i] # <<>>)
    /\ [][(tpPc = "range" /\ tpBatch = <<>> /\ tpPc' # tpPc) => txChan' = txChan]_vars

(***************************************************************************)
(* C7, amended.  A fetch that yields zero Collections is sent like any     *)
(* other: the empty batch is appended to dataChan; BroadCast returns from  *)
(* an empty batch without putting anything on txChan.                      *)
(***************************************************************************)
C7_EmptyBatchForwarded ==
    [][/\ (fPc \in {"send", "parked"} /\ fData = <<>> /\ fPc' = "select")
            => (dataChan' # <<>> /\ dataChan'[Len(dataChan')] = <<>>)
       /\ (tpPc = "range" /\ tpBatch = <<>> /\ tpPc' # tpPc)
            => (tpPc' = "select" /\ txChan' = txChan /\ emitted' = emitted)]_vars

\* BroadCast runs on an empty batch that came through the open queue
C7_Witness == tpPc = "range" /\ tpBatch = <<>> /\ mainPc = "wait" /\ emitted = {}

(***************************************************************************)
(* C8.  As the claim has it: after one batch with nothing failing, the     *)
(* SelectedItems produced, the broadcasts and the records written are each *)
(* as many as the batch's contracts that had no record.                    *)
(***************************************************************************)
C8_CountsEqualUnrecorded ==
    (Quiescent /\ ticks = 1)
        => /\ Cardinality(emitted) = Cardinality(emitted \ EarlierContracts)
           /\ Len(NewBroadcasts) = Cardinality(emitted \ EarlierContracts)
           /\ Cardinality(NewRecords) = Cardinality(emitted \ EarlierContracts)

(***************************************************************************)
(* C8, amended.  With nothing failing, once the ticks taken are worked     *)
(* off: Selection has produced a SelectedItem for every contract fetched,  *)
(* recorded or not; the broadcasts and the records written are one for     *)
(* each of those contracts that had no record, each with unitCount 1.      *)
(***************************************************************************)
C8_EndToEnd ==
    Quiescent
        => /\ NewBroadcastContracts = emitted \ EarlierContracts
           /\ Len(NewBroadcasts) = Cardinality(emitted \ EarlierContracts)
           /\ {d.address : d \in NewRecords} = emitted \ EarlierContracts
           /\ Cardinality(NewRecords) = Cardinality(emitted \ EarlierContracts)
           /\ \A d \in NewRecords : d.qty = 1
           /\ config = DemoConfig => emitted = DemoContracts

\* the demo batch with Demo2 recorded by an earlier run: three items, two broadcasts
C8_Witness ==
    /\ Quiescent /\ ticks = 1
    /\ EarlierContracts = {Demo2}
    /\ emitted = DemoContracts
    /\ Len(NewBroadcasts) = 2 /\ Cardinality(NewRecords) = 2

(***************************************************************************)
(* C9.  When api.GetTransaction answers with an empty list, BroadCast      *)
(* emits nothing for the Collection, exactly one ErrorRecord of kind       *)
(* "no items" is written, and the loop goes on with the next Collection.   *)
(***************************************************************************)
C9_NoItemsLogged ==
    [][(tpPc = "process" /\ ~tpTxs.err /\ tpTxs.txs = <<>> /\ tpPc' # tpPc)
         => /\ tpPc' = "range" /\ tpIdx' = tpIdx + 1 /\ tpBatch' = tpBatch
            /\ txChan' = txChan
            /\ Cardinality(errorLog' \ errorLog) = 1
            /\ \A e \in errorLog' \ errorLog : e.Type = "no items"]_vars

(***************************************************************************)
(* C10.  A failing gas estimate, build, broadcast or insert writes an      *)
(* ErrorRecord whose kind names the failed step, and Minter goes on with   *)
(* its loop.                                                               *)
(***************************************************************************)
C10_FailureAudit ==
    [][SubmissionStepFails
         => /\ mPc' = "select"
            /\ \E e \in errorLog' \ errorLog : e.Type = mPc]_vars

(***************************************************************************)
(* C11.  Whenever Minter is between two items, and before any shutdown,   *)
(* the TransactionRecords are as many as the broadcasts the node accepted: *)
(* every accepted broadcast has its record, and there is no record without *)
(* one.                                                                    *)
(***************************************************************************)
C11_RecordPerBroadcast ==
    (mPc = "select" /\ ~cancelled)
        => /\ Len(mempool) = Cardinality(transactions)
           /\ \A i \in 1..Len(mempool) :
                 \E d \in transactions : d.hash = TxHash(mempool[i].tx)

C13_ShutdownLiveness ==
    /\ cancelled ~> (fPc = "done")
    /\ cancelled ~> (tpPc = "done")
    /\ cancelled ~> (mPc = "done")

(***************************************************************************)
(* C14.  Neither queue ever holds more than ChanCap = 4 messages; and a    *)
(* producer at its send with the queue full and ctx.Done() open keeps its  *)
(* message and stays at the send while the queue only loses its head, or   *)
(* completes the send behind the messages that remain: the message is      *)
(* neither dropped nor written over another.                               *)
(***************************************************************************)
C14_BoundedQueues ==
    /\ [](Len(dataChan) <= ChanCap /\ Len(txChan) <= ChanCap)
    /\ [][/\ (fPc \in {"send", "parked"} /\ Len(dataChan) = ChanCap /\ ~cancelled)
               => \/ /\ fPc' \in {"send", "parked"} /\ fData' = fData
                     /\ dataChan' \in {dataChan, Tail(dataChan)}
                  \/ /\ fPc' = "select"
                     /\ dataChan' = Append(Tail(dataChan), fData)
          /\ (tpPc \in {"send", "parked"} /\ Len(txChan) = ChanCap /\ ~cancelled)
               => \/ /\ tpPc' \in {"send", "parked"} /\ tpData' = tpData
                     /\ txChan' \in {txChan, Tail(txChan)}
                  \/ /\ tpPc' = "range"
                     /\ txChan' = Append(Tail(txChan), tpData)]_vars

\* FetchWorker waits with a batch at the full queue, and nobody has cancelled
C14_Witness == ~cancelled /\ fPc = "parked" /\ Len(dataChan) = ChanCap /\ Len(fData) = 3

(***************************************************************************)
(* C15.  One item at a time is between its nonce fetch and its broadcast:  *)
(* while Transaction holds a built transaction, the node has accepted      *)
(* nothing since its nonce was fetched; right after the broadcast the last *)
(* accepted transaction is that one; so the nonces of this run's accepted  *)
(* transactions follow each other without gap or collision.                *)
(***************************************************************************)
C15_SingleInFlight ==
    /\ mPc = "send" => mTx.nonce = Len(mempool)
    /\ mPc = "insert" => (mempool # <<>> /\ mempool[Len(mempool)].tx = mTx)
    /\ \A i \in (Len(earlier.mempool) + 1)..Len(mempool) : mempool[i].tx.nonce = i - 1

\* a second item of this run is built and about to be broadcast
C15_Witness ==
    /\ mPc = "send" /\ mData.Contract \in DemoContracts
    /\ Len(NewBroadcasts) >= 1 /\ mTx.nonce = Len(mempool)

(***************************************************************************)
(* C16.  Transaction moves only along lookup -> estimate -> build -> send  *)
(* -> insert, each move after a step that did not fail (and after a lookup *)
(* that found no record); the node accepts a transaction only in the send  *)
(* step and a record is written only in the insert step; and Transaction   *)
(* returns in exactly one of three ways: skipped (record found), failed (a *)
(* step failed, nothing written by it) or done (record written).           *)
(***************************************************************************)
ItemSkipped == mPc = "lookup" /\ Recorded(mData.Contract) /\ faults' = faults

ItemFailed == faults' = faults + 1 /\ transactions' = transactions /\ mempool' = mempool

ItemDone ==
    /\ mPc = "insert" /\ faults' = faults
    /\ transactions' =
          transactions \cup {Document(mData.Name, mHash, mData.Quantity, mData.Contract)}

C16_StepOrder ==
    [][/\ mPc' # mPc
            => \/ mPc = "unstarted" /\ mPc' = "select" /\ mainPc = "start"
               \/ mPc = "select" /\ mPc' \in {"lookup", "done"}
               \/ /\ mPc = "lookup" /\ mPc' = "estimate"
                  /\ ~Recorded(mData.Contract) /\ faults' = faults
               \/ mPc = "estimate" /\ mPc' = "build" /\ faults' = faults
               \/ mPc = "build" /\ mPc' = "send" /\ faults' = faults
               \/ /\ mPc = "send" /\ mPc' = "insert" /\ faults' = faults
                  /\ mempool' = Append(mempool, [contract |-> mData.Contract, tx |-> mTx])
               \/ /\ mPc \in {"lookup", "estimate", "build", "send", "insert"}
                  /\ mPc' = "select"
                  /\ ItemSkipped \/ ItemFailed \/ ItemDone
                  /\ ~(ItemSkipped /\ ItemFailed)
                  /\ ~(ItemSkipped /\ ItemDone)
                  /\ ~(ItemFailed /\ ItemDone)
       /\ mempool' # mempool => (mPc = "send" /\ mPc' = "insert")
       /\ transactions' # transactions => (mPc = "insert" /\ mPc' = "select")]_vars

\* an item has passed lookup, estimate, build and send and is at its insert
C16_Witness ==
    /\ mPc = "insert" /\ mData.Contract \in DemoContracts
    /\ ~Recorded(mData.Contract) /\ mGasPrice \in GasPrices
    /\ mempool[Len(mempool)].tx = mTx /\ mHash = TxHash(mTx)

(***************************************************************************)
(* C17.  A tick whose fetch succeeds takes FetchWorker to its send with    *)
(* the batch FetchCollection returned; while it waits there the batch is   *)
(* unchanged and no further fetch is made; it leaves the send either with  *)
(* exactly that batch appended to dataChan as one message, or, with        *)
(* ctx.Done() closed, without any message.  A tick whose fetch fails       *)
(* leaves dataChan as it is and FetchWorker at its select, where only the  *)
(* next tick fetches again.  FetchWorker ends only after cancellation.     *)
(***************************************************************************)
FetchedBatches == {r.data : r \in FetchCollectionResults(config) \ {FetchFailed}}

C18_QueryFailureIsolation ==
    /\ [][/\ (tpPc = "process" /\ tpTxs.err /\ tpPc' # tpPc)
               => /\ tpPc' = "range" /\ tpIdx' = tpIdx + 1 /\ tpBatch' = tpBatch
                  /\ txChan' = txChan /\ sent' = sent
          /\ (tpPc = "range" /\ tpIdx <= Len(tpBatch) /\ ~cancelled /\ tpPc' # tpPc)
               => /\ tpPc' = "process" /\ tpIdx' = tpIdx /\ tpBatch' = tpBatch
                  /\ tpTxs' \in GetTransactionResults(tpBatch[tpIdx])
          /\ (/\ tpPc = "process" /\ ~tpTxs.err /\ tpPc' # tpPc
              /\ ProcessData(tpBatch[tpIdx], tpTxs.txs).err = ErrNone)
               => /\ tpPc' = "send" /\ tpBatch' = tpBatch
                  /\ tpData' = ProcessData(tpBatch[tpIdx], tpTxs.txs).data]_vars
    /\ [](tpPc \in {"done", "panic"} => cancelled)

\* the query has failed for the first Collection of the demo batch
C18_Witness ==
    /\ tpPc = "process" /\ tpTxs.err
    /\ tpBatch = createDemoCollections /\ tpIdx = 1 /\ ~cancelled

(***************************************************************************)
(* C19.  When the candidate source answers for a Collection with a list in *)
(* which some candidate's NftCount does not parse as an integer, whatever  *)
(* its position and whatever the other counts, BroadCast puts nothing on   *)
(* txChan for the Collection and goes on to the next index of the batch.   *)
(***************************************************************************)
Malformed(txs) == \E i \in 1..Len(txs) : ~Atoi(txs[i].NftCount).ok

C19_ParseFailure ==
    [][(tpPc = "process" /\ ~tpTxs.err /\ Malformed(tpTxs.txs) /\ tpPc' # tpPc)
         => /\ tpPc' = "range" /\ tpIdx' = tpIdx + 1 /\ tpBatch' = tpBatch
            /\ txChan' = txChan /\ sent' = sent /\ emitted' = emitted]_vars

\* the second Collection's answer: a valid count 1 first, a malformed count after it
C19_Witness ==
    /\ tpPc = "process" /\ ~tpTxs.err /\ tpIdx = 2 /\ Len(tpBatch) = 3
    /\ Len(tpTxs.txs) = 2
    /\ Atoi(tpTxs.txs[1].NftCount).ok /\ ~Atoi(tpTxs.txs[2].NftCount).ok

(***************************************************************************)
(* C20.  The transaction Transaction has built, and every transaction the  *)
(* node has accepted from it, goes to HexToAddress of the item's To, has   *)
(* the item's CallData as data, value 0 whatever the item's EthValue, the  *)
(* gas price estimated for the item and the gas limit the wallet was made  *)
(* with.                                                                   *)
(***************************************************************************)
BuiltFor(tx, item) ==
    /\ tx.to = HexToAddress(item.To)
    /\ tx.data = item.CallData
    /\ tx.value = 0
    /\ tx.gasPrice \in GasPrices
    /\ tx.gasLimit = gasLimit

C20_TransactionConstruction ==
    /\ mPc \in {"send", "insert"} => (BuiltFor(mTx, mData) /\ mTx.gasPrice = mGasPrice)
    /\ mPc = "build" => mGasPrice \in GasPrices
    /\ \A i \in 1..Len(mempool) :
          \E j \in 1..Len(received) :
              /\ mempool[i].contract = received[j].Contract
              /\ BuiltFor(mempool[i].tx, received[j])

\* an item with a native value and a destination other than its contract is built
C20_Witness ==
    /\ mPc = "send" /\ mData.EthValue = "5" /\ mTx.value = 0
    /\ mData.To # mData.Contract /\ mTx.to = HexToAddress(mData.To)
    /\ mData.CallData = "0xa0" /\ gasLimit = 14 /\ mTx.gasLimit = 14

(***************************************************************************)
(* C21.  Once ctx.Done() is closed, BroadCast at the head of its loop body *)
(* returns: no step takes it to a query of the candidate source, and the   *)
(* only ProcessedData still put on txChan is the one whose Collection was  *)
(* already processed and is at its send.                                   *)
(***************************************************************************)
C21_InterruptibleIteration ==
    [][cancelled
         => /\ tpPc' = "process" => tpPc = "process"
            /\ (tpPc = "range" /\ tpPc' # tpPc)
                 => (tpPc' = "select" /\ tpBatch' = <<>> /\ tpTxs' = tpTxs)
            /\ sent' # sent
                 => (tpPc = "send" /\ sent' = Append(sent, tpData))]_vars

\* cancellation has fired with two Collections of the demo batch not yet begun
C21_Witness ==
    /\ cancelled /\ tpPc = "range" /\ tpIdx = 2
    /\ tpBatch = createDemoCollections /\ mainPc = "wait"

(***************************************************************************)
(* C22.  No batch that FetchWorker holds, that waits on dataChan or that   *)
(* BroadCast works on names a contract twice; BroadCast puts an item on    *)
(* txChan only for the Collection at its index and then moves to the next  *)
(* index, never back: so at most one ProcessedData per contract and batch. *)
(***************************************************************************)
DistinctContracts(batch) ==
    \A i, j \in 1..Len(batch) : i # j => batch[i].Contract # batch[j].Contract

C22_OnePerContractPerBatch ==
    /\ [](/\ DistinctContracts(fData)
          /\ DistinctContracts(tpBatch)
          /\ \A k \in 1..Len(dataChan) : DistinctContracts(dataChan[k]))
    /\ [][/\ sent' # sent
               => /\ Len(sent') = Len(sent) + 1
                  /\ sent'[Len(sent')].Contract = tpBatch[tpIdx].Contract
                  /\ tpIdx' = tpIdx + 1
          /\ tpBatch' = tpBatch => tpIdx' >= tpIdx]_vars

\* the source listed one contract twice: the batch names it once, one item is out
C22_Witness ==
    /\ config = LiveConfig /\ ticks = 1 /\ ~cancelled
    /\ Len(tpBatch) = 1 /\ tpBatch[1].Contract = Demo1
    /\ tpPc = "range" /\ tpIdx = 2 /\ Len(sent) = 1

(***************************************************************************)
(* C23.  Every step Transaction takes leaves the step it was at, for the   *)
(* next step or for the return, so no step runs twice for an item: while   *)
(* Transaction stays at a step nothing of it, of the node or of the        *)
(* records changes and no call of it fails.  BroadCast queries only when   *)
(* it enters the processing of the Collection at its index, and leaves it  *)
(* for the send or for the next index: no Collection is queried twice.     *)
(***************************************************************************)
StepRank(pc) ==
    CASE pc = "lookup" -> 1 [] pc = "estimate" -> 2 [] pc = "build" -> 3
      [] pc = "send" -> 4 [] pc = "insert" -> 5 [] OTHER -> 0

TransactionSteps == {"lookup", "estimate", "build", "send", "insert"}

C23_NoRetries ==
    [][/\ (mPc \in TransactionSteps /\ mPc' = mPc)
            => /\ mVars' = mVars /\ mempool' = mempool /\ transactions' = transactions
               /\ faults' # faults => (tpVars' # tpVars \/ fVars' # fVars)
       /\ (mPc \in TransactionSteps /\ mPc' # mPc)
            => (mPc' = "select" \/ StepRank(mPc') = StepRank(mPc) + 1)
       /\ (tpPc = "process" /\ tpPc' = tpPc)
            => /\ tpVars' = tpVars
               /\ faults' # faults => (mVars' # mVars \/ fVars' # fVars)
       /\ (tpPc' = "process" /\ tpPc # "process")
            => (tpPc = "range" /\ tpIdx' = tpIdx /\ tpBatch' = tpBatch)
       /\ (tpPc = "process" /\ tpPc' # tpPc) => tpPc' \in {"range", "send"}
       /\ (tpPc \in {"process", "send", "parked"} /\ tpPc' = "range")
            => (tpIdx' = tpIdx + 1 /\ tpBatch' = tpBatch)]_vars

\* Demo1's item was received and Transaction has returned from it with nothing
\* broadcast and nothing recorded: it failed, and is not tried again
C23_Witness ==
    /\ ~cancelled /\ ticks = 1 /\ faults = 1
    /\ Len(received) = 1 /\ received[1].Contract = Demo1
    /\ mPc = "select" /\ Broadcasts(Demo1) = 0 /\ ~Recorded(Demo1)

(***************************************************************************)
(* C24.  Whenever Transaction writes a record, the record is the only one  *)
(* added, its name, address and quantity are those of the item being       *)
(* processed, and its hash is the hash of the transaction broadcast last,  *)
(* which was broadcast for that item's contract.  So every record of this  *)
(* run carries the hash of a broadcast made for its own contract.          *)
(***************************************************************************)
C24_RecordContents ==
    /\ [][transactions' # transactions
            => /\ mPc = "insert"
               /\ transactions' = transactions \cup
                     {[name |-> mData.Name, hash |-> mHash,
                       qty |-> mData.Quantity, address |-> mData.Contract]}
               /\ mempool # <<>>
               /\ mHash = TxHash(mempool[Len(mempool)].tx)
               /\ mempool[Len(mempool)].contract = mData.Contract
               /\ mempool[Len(mempool)].tx.to = HexToAddress(mData.To)]_vars
    /\ [](\A d \in NewRecords :
            \E k \in 1..Len(NewBroadcasts) :
                /\ NewBroadcasts[k].contract = d.address
                /\ TxHash(NewBroadcasts[k].tx) = d.hash)

\* two items were recorded one after the other, each under its own hash
C24_Witness ==
    /\ Len(NewBroadcasts) = 2 /\ Cardinality(NewRecords) = 2
    /\ Cardinality({d.hash : d \in NewRecords}) = 2
    /\ \E d \in NewRecords : d.address = Demo3 /\ d.hash = TxHash(mempool[Len(mempool)].tx)
    /\ mPc = "select"

(***************************************************************************)
(* C26.  When the lookup of an item fails, Transaction returns at once:    *)
(* Minter is back at its select with nothing estimated or built, the node  *)
(* and the records are as they were, and the estimate is only ever         *)
(* entered from a lookup that succeeded and found no record.  Back at the  *)
(* select, Minter can receive the next item whenever one is queued.        *)
(***************************************************************************)
C26_FailClosedLookup ==
    /\ [][/\ (mPc = "lookup" /\ mPc' # mPc /\ faults' > faults)
               => /\ mPc' = "select" /\ mGasPrice' = 0 /\ mTx' = ZeroTx /\ mHash' = ""
                  /\ mempool' = mempool /\ transactions' = transactions
                  /\ txChan' = txChan /\ received' = received
          /\ (mPc' = "estimate" /\ mPc # "estimate")
               => /\ mPc = "lookup" /\ faults' = faults
                  /\ ~GetTransactionsFromDb(mData.Contract)]_vars
    /\ []((Running /\ mPc = "select" /\ txChan # <<>>) => ENABLED MinterRecv)

\* the lookup of the first item has failed, nothing was broadcast or recorded
\* for it, and Minter has gone on to the second item
C26_Witness ==
    /\ ~cancelled /\ faults = 1 /\ Len(received) = 2
    /\ received[1].Contract = Demo1 /\ received[2].Contract = Demo2
    /\ mPc = "estimate" /\ mData = received[2]
    /\ NewBroadcasts = <<>> /\ NewRecords = {}
    /\ tpPc = "select" /\ fPc = "select"

(***************************************************************************)
(* C27.  Once cancelled, Minter at its select never takes an item that     *)
(* waits in txChan to start Transaction on it, and TaskProcessor at its    *)
(* select never takes a batch that waits in dataChan to start BroadCast    *)
(* on it.                                                                  *)
(***************************************************************************)
C27_NoNewWorkAfterCancel ==
    [][cancelled
         => /\ (mPc = "select" /\ txChan # <<>>) => mPc' # "lookup"
            /\ (tpPc = "select" /\ dataChan # <<>>) => tpPc' # "range"]_vars

(***************************************************************************)
(* C28.  Neither FetchWorker nor BroadCast ever executes its send on a     *)
(* queue that main has closed: no stage panics.                            *)
(***************************************************************************)
C28_NoSendOnClosedQueue == fPc # "panic" /\ tpPc # "panic"

(***************************************************************************)
(* C29.  Whenever Transaction is at one of its steps, the item it works on *)
(* is the item Minter received last from txChan, an item BroadCast sent,   *)
(* and its contract address is not empty.                                  *)
(***************************************************************************)
C29_NoPhantomItems ==
    mPc \in TransactionSteps
        => /\ received # <<>> /\ mData = received[Len(received)]
           /\ \E i \in 1..Len(sent) : sent[i] = mData
           /\ mData.Contract # ""

(***************************************************************************)
(* C25.  Until main has loaded .env, connected to MongoDB, parsed          *)
(* GAS_LIMIT and made the wallet, no goroutine exists: no tick is taken,   *)
(* nothing is queued, broadcast or recorded.  main gets past a step only   *)
(* when that step succeeded, so the stages are started only in an          *)
(* environment where all four succeed, with the parsed gas limit; a step   *)
(* that fails ends the process by log.Fatal, after which nothing happens.  *)
(***************************************************************************)
StartupPcs == {"loadEnv", "connect", "gasLimit", "wallet", "start"}

NothingStarted ==
    /\ fPc = "unstarted" /\ tpPc = "unstarted" /\ mPc = "unstarted"
    /\ ticks = 0 /\ faults = 0 /\ dataChan = <<>> /\ txChan = <<>>
    /\ sent = <<>> /\ received = <<>> /\ emitted = {}
    /\ mempool = earlier.mempool /\ transactions = earlier.transactions

C25_FatalStartup ==
    /\ [](mainPc \in StartupPcs \cup {"fatal"} => NothingStarted)
    /\ [](mainPc \notin {"loadEnv", "fatal"} => env.dotenv)
    /\ [](mainPc \notin {"loadEnv", "connect", "fatal"} => env.mongo)
    /\ [](mainPc \notin {"loadEnv", "connect", "gasLimit", "fatal"}
            => (Atoi(env.gasLimit).ok /\ gasLimit = Atoi(env.gasLimit).val))
    /\ [](mainPc \notin {"loadEnv", "connect", "gasLimit", "wallet", "fatal"} => env.wallet)
    /\ [][/\ mainPc # "fatal"
          /\ (mainPc = "loadEnv" /\ ~env.dotenv) => mainPc' = "fatal"
          /\ (mainPc = "connect" /\ ~env.mongo) => mainPc' \in {"connect", "fatal"}
          /\ (mainPc = "gasLimit" /\ ~Atoi(env.gasLimit).ok) => mainPc' \in {"gasLimit", "fatal"}
          /\ (mainPc = "wallet" /\ ~env.wallet) => mainPc' \in {"wallet", "fatal"}
          /\ (fPc' # "unstarted" \/ tpPc' # "unstarted" \/ mPc' # "unstarted")
                => mainPc \notin StartupPcs \ {"start"}]_vars

\* .env loaded and MongoDB connected, GAS_LIMIT is no integer: main has ended
\* by log.Fatal with nothing started
C25_Witness ==
    /\ mainPc = "fatal" /\ env.dotenv /\ env.mongo /\ env.wallet
    /\ env.gasLimit = <<"x">> /\ ~cancelled /\ NothingStarted

\* at most three items a tick: createDemoCollections has three collections
MaxItems == 3 * MaxTicks

(***************************************************************************)
(* C30.  While no signal arrives and every call returns, no stage is       *)
(* stuck: again and again FetchWorker is back at its ticker with its batch *)
(* queued, dataChan has been emptied by TaskProcessor, BroadCast has gone  *)
(* through its batch and returned, Minter has received everything          *)
(* BroadCast sent, and Transaction has returned to Minter's select.  A     *)
(* stage parked on a full queue gets its send completed.                   *)
(***************************************************************************)
C30_PipelineProgress ==
    /\ []<>(fPc = "select")
    /\ []<>(dataChan = <<>>)
    /\ []<>(tpPc = "select")
    /\ []<>(received = sent)
    /\ []<>(mPc = "select")
    /\ (tpPc = "parked") ~> (tpPc = "range")
    /\ (fPc = "parked") ~> (fPc = "select" /\ dataChan # <<>>)
    /\ (dataChan # <<>>) ~> (tpPc = "range")
    /\ (tpPc = "process") ~> (tpPc \in {"range", "send"})
    /\ \A k \in 1..MaxItems : (Len(sent) >= k) ~> (Len(received) >= k)

\* BroadCast is parked on the full txChan with Minter inside Transaction, and
\* a second batch waits in dataChan
C30_Witness ==
    /\ ~cancelled /\ mainPc = "wait"
    /\ tpPc = "parked" /\ Len(txChan) = ChanCap /\ mPc = "lookup"
    /\ dataChan # <<>> /\ Len(sent) > Len(received) + ChanCap - 1

(***************************************************************************)
(* C31.  ProcessData returns an error only for an empty candidate list or  *)
(* a list with a count that does not parse; for every non-empty list whose *)
(* counts all parse, the largest int, zero and negative counts included,   *)
(* it returns no error and an item whose To, CallData, EthValue and        *)
(* Quantity are those of one of the candidates.                            *)
(***************************************************************************)
C31_ErrorConditions ==
    pdOut # PdPending
        => /\ pdOut.err # ErrNone => (pdTxs = <<>> \/ ~AllParse(pdTxs))
           /\ (pdTxs # <<>> /\ AllParse(pdTxs))
                => /\ pdOut.err = ErrNone
                   /\ \E i \in 1..Len(pdTxs) :
                         /\ pdOut.data.To = pdTxs[i].To
                         /\ pdOut.data.CallData = pdTxs[i].CallData
                         /\ pdOut.data.EthValue = pdTxs[i].EthValue
                         /\ pdOut.data.Quantity = Atoi(pdTxs[i].NftCount).val

(***************************************************************************)
(* C32.  Whatever FETCH_DURATION holds, FetchWorker reaches its polling    *)
(* loop with a ticker whose interval is strictly positive, and the         *)
(* interval is that of 60 seconds when the setting is empty or is no       *)
(* integer.                                                                *)
(***************************************************************************)
C32_PollInterval ==
    fdOut # FdPending
        => /\ fdOut.pc = "select" /\ fdOut.interval > 0
           /\ (fdStr = <<>> \/ ~Atoi(fdStr).ok)
                => fdOut.interval = Atoi(DefaultFetchDuration).val * Second

(***************************************************************************)
(* C33.  The batch filterCollections returns has no two Collections with   *)
(* the same contract address, none that is reported and none with an empty *)
(* address; it is, in input order, exactly the first occurrences of the    *)
(* addresses of the input that are neither reported nor without address    *)
(* (an address whose first occurrence is reported is left out, later       *)
(* occurrences included).                                                  *)
(***************************************************************************)
\* the places of the input that are a first occurrence, unreported, with address
KeptPlaces(in) ==
    {i \in 1..Len(in) :
        /\ in[i].Contract # "" /\ Len(in[i].IsReported) = 0
        /\ \A j \in 1..(i - 1) : in[j].Contract # in[i].Contract}

RECURSIVE PickedFrom(_, _)
\* the Collections at the kept places from place i on, in input order
PickedFrom(in, i) ==
    IF i > Len(in) THEN <<>>
    ELSE (IF i \in KeptPlaces(in) THEN <<in[i]>> ELSE <<>>) \o PickedFrom(in, i + 1)

C33_BatchFiltering ==
    fcOut.done
        => /\ DistinctContracts(fcOut.filtered)
           /\ \A k \in 1..Len(fcOut.filtered) :
                 /\ Len(fcOut.filtered[k].IsReported) = 0
                 /\ fcOut.filtered[k].Contract # ""
           /\ fcOut.filtered = PickedFrom(fcIn, 1)

\* the first occurrence of Demo1 is reported and a later one is not: neither
\* is kept, and the batch is the one Collection of Demo2
C33_Witness ==
    /\ fcOut.done
    /\ fcIn = <<Collection(Demo1, "a", <<"spam">>), Collection(Demo2, "a", <<>>),
                Collection(Demo1, "b", <<>>)>>
    /\ fcOut.filtered = <<Collection(Demo2, "a", <<>>)>>

=============================================================================
